---- MODULE Spec2Model ----
(***************************************************************************)
(* Founder accounts, session tokens and the validation-call ledger of the  *)
(* CoFoundr.AI backend (main.py, auth.py, startup_validation.py).          *)
(*                                                                         *)
(* Storage is the two relational tables the code creates: founders and     *)
(* validation_calls.  Each request handler is an operator that computes,   *)
(* from the current state and the request, the tables, tokens, suspended   *)
(* requests and response it leaves behind; the action of the handler       *)
(* applies that result.  A handler that awaits between two storage or      *)
(* provider steps on which another request can act (register, cancel) is   *)
(* split at that await into two handlers and two actions.                  *)
(***************************************************************************)
EXTENDS Integers, Sequences, FiniteSets, Bags, TLC

----------------------------------------------------------------------------
(* Bounds of the model *)

MaxCalls == 2
MaxInflight == 2
MaxTokens == 2
MaxConns == 3

(* Program constants *)

JWT_ACCESS_TOKEN_EXPIRE_MINUTES == 30
HTTP_200_OK == 200
HTTP_400_BAD_REQUEST == 400
HTTP_401_UNAUTHORIZED == 401
HTTP_404_NOT_FOUND == 404
HTTP_500_INTERNAL_SERVER_ERROR == 500
RECENT_LIMIT == 5

(* Inputs *)

Emails == {"a@x.io", "b@x.io"}
Passwords == {"pw1", "pw2"}
FirstNames == {"Ann"}
PhoneNumbers == {"+15550100"}
RequestIds == {"123", "abc123"}
WebhookCallIds == {123, 7}
CallDates == {"2024-05-01 10:00", "2024-05-01T10:00:00Z", "not a date"}

(* The instants the clock visits, in minutes: issuance, and one minute      *)
(* before, at and after the default expiry of a token issued at 0.          *)
Instants ==
  {0, JWT_ACCESS_TOKEN_EXPIRE_MINUTES - 1, JWT_ACCESS_TOKEN_EXPIRE_MINUTES,
   JWT_ACCESS_TOKEN_EXPIRE_MINUTES + 1}

----------------------------------------------------------------------------
VARIABLES
  founders,   \* table founders: sequence of rows, id = position (SERIAL)
  ledger,     \* table validation_calls: sequence of rows in insertion order
  tokens,     \* session tokens issued so far
  now,        \* the clock, in minutes
  inflight,   \* bag of the requests suspended at an await
  resp,       \* the last HTTP response returned
  conns       \* number of storage connections that are open

vars == <<founders, ledger, tokens, now, inflight, resp, conns>>

----------------------------------------------------------------------------
(* Values *)

NULL == "NULL"            \* SQL NULL / Python None in a text column
ABSENT == "ABSENT"        \* a key missing from a JSON object
NULL_TS == 0 - 1          \* SQL NULL in a TIMESTAMP or INTEGER column
NoFounder == 0            \* fetchrow returned None

NoRequest == [method |-> "none", id |-> ""]
NoResponse ==
  [op |-> "none", by |-> NoFounder, code |-> 0, detail |-> "", at |-> 0,
   tokens |-> {}, calls |-> <<>>, sent |-> NoRequest]

(* A response: the handler, the authenticated founder it ran for, the HTTP  *)
(* status, the message, the time it was sent, the token it carries (if      *)
(* any), the call ids of the rows it returns, and the request the handler   *)
(* sent to the voice-agent provider while it ran (if any).                  *)
Response(op, by, code, detail) ==
  [op |-> op, by |-> by, code |-> code, detail |-> detail, at |-> now,
   tokens |-> {}, calls |-> <<>>, sent |-> NoRequest]

Sent(response, method, id) ==
  [response EXCEPT !.sent = [method |-> method, id |-> id]]

(* What a handler leaves behind when it changes nothing *)
Unchanged ==
  [founders |-> founders, ledger |-> ledger, tokens |-> tokens,
   inflight |-> inflight, resp |-> resp, conns |-> conns]

Responds(response) == [Unchanged EXCEPT !.resp = response]

(* The step of a handler with result n, within the bounds of the model *)
Apply(n) ==
  /\ Len(n.ledger) <= MaxCalls
  /\ Cardinality(n.tokens) <= MaxTokens
  /\ BagCardinality(n.inflight) <= MaxInflight
  /\ n.conns <= MaxConns
  /\ founders' = n.founders
  /\ ledger' = n.ledger
  /\ tokens' = n.tokens
  /\ inflight' = n.inflight
  /\ resp' = n.resp
  /\ conns' = n.conns
  /\ UNCHANGED now

FounderIds == DOMAIN founders

----------------------------------------------------------------------------
(* main.py, auth.py: password hashing and session tokens *)

hash_password(password) == "$2b$" \o password

verify_password(plain_password, hashed_password) ==
  hashed_password = hash_password(plain_password)

create_access_token(sub, t) ==
  [sub |-> sub, exp |-> t + JWT_ACCESS_TOKEN_EXPIRE_MINUTES, signed |-> TRUE]

(* jwt.decode: the signature must verify and the token must not be expired; *)
(* python-jose raises ExpiredSignatureError when exp < now.                 *)
jwt_decode_no_exp(tok, t) == tok.signed

jwt_decode(tok, t) == tok.signed /\ ~(tok.exp < t)

(* Bearer strings not minted by this server: the signature does not verify. *)
ForgedTokens ==
  {[sub |-> "a@x.io", exp |-> 2 * JWT_ACCESS_TOKEN_EXPIRE_MINUTES, signed |-> FALSE]}

PresentedTokens == tokens \cup ForgedTokens

(* SELECT * FROM founders WHERE email = $1 AND is_active = TRUE *)
ActiveFounderAny(email) ==
  IF \E i \in FounderIds : founders[i].email = email
  THEN CHOOSE i \in FounderIds : founders[i].email = email
  ELSE NoFounder

ActiveFounder(email) ==
  IF \E i \in FounderIds : founders[i].email = email /\ founders[i].is_active
  THEN CHOOSE i \in FounderIds : founders[i].email = email /\ founders[i].is_active
  ELSE NoFounder

(* get_current_user: the founder id, or NoFounder for credentials_exception *)
get_current_user(tok) ==
  IF ~jwt_decode(tok, now) THEN NoFounder
  ELSE IF tok.sub = NULL THEN NoFounder
  ELSE ActiveFounder(tok.sub)

CredentialsException(op) ==
  Response(op, NoFounder, HTTP_401_UNAUTHORIZED, "Could not validate credentials")

(* SELECT id FROM founders WHERE email = $1 *)
existing_founder(email) == \E i \in FounderIds : founders[i].email = email

(* email VARCHAR(255) UNIQUE NOT NULL: the storage refuses a second row *)
NoUniqueEmail(email) == FALSE

UniqueEmailViolation(email) == \E i \in FounderIds : founders[i].email = email

----------------------------------------------------------------------------
(* main.py: the handlers *)

(* register_founder, up to the await of the INSERT; the request holds the  *)
(* connection it opened while it waits (the finally closes it on the 400)  *)
register_founder_check(email, password, first_name) ==
  IF existing_founder(email)
  THEN Responds(Response("register", NoFounder, HTTP_400_BAD_REQUEST,
                         "Email already registered"))
  ELSE [Unchanged EXCEPT
          !.conns = conns + 1,
          !.inflight = inflight (+) SetToBag({
            [op |-> "register", email |-> email,
             password_hash |-> hash_password(password),
             first_name |-> first_name]})]

(* register_founder from the INSERT on.  A unique violation raised by the   *)
(* INSERT is not caught by the handler: the framework answers 500.  The     *)
(* finally closes the connection either way.                                *)
register_founder_insert(r) ==
  LET tok == create_access_token(r.email, now)
      rest == inflight (-) SetToBag({r})
  IN IF UniqueEmailViolation(r.email)
     THEN [Unchanged EXCEPT
             !.conns = conns - 1,
             !.inflight = rest,
             !.resp = Response("register", NoFounder,
                               HTTP_500_INTERNAL_SERVER_ERROR,
                               "Internal Server Error")]
     ELSE [Unchanged EXCEPT
             !.conns = conns - 1,
             !.inflight = rest,
             !.founders = Append(founders,
                [email |-> r.email, password_hash |-> r.password_hash,
                 first_name |-> r.first_name, is_active |-> TRUE]),
             !.tokens = tokens \cup {tok},
             !.resp = [Response("register", Len(founders) + 1, HTTP_200_OK,
                                "Founder registered successfully")
                       EXCEPT !.tokens = {tok}]]

login_founder(email, password) ==
  LET db_founder == ActiveFounder(email)
      tok == create_access_token(email, now)
  IN IF \/ db_founder = NoFounder
        \/ ~verify_password(password, founders[db_founder].password_hash)
     THEN Responds(Response("login", NoFounder, HTTP_401_UNAUTHORIZED,
                            "Incorrect email or password"))
     ELSE [Unchanged EXCEPT
             !.tokens = tokens \cup {tok},
             !.resp = [Response("login", db_founder, HTTP_200_OK, "bearer")
                       EXCEPT !.tokens = {tok}]]

(* GET /auth/me: get_current_user, then the caller's own row *)
get_current_founder(tok) ==
  LET current_founder == get_current_user(tok)
  IN Responds(IF current_founder = NoFounder
              THEN CredentialsException("me")
              ELSE Response("me", current_founder, HTTP_200_OK,
                            founders[current_founder].email))

(* logout_founder: the server does nothing *)
logout_founder ==
  Responds(Response("logout", NoFounder, HTTP_200_OK,
     "Logged out successfully. Please remove the token from client storage."))

----------------------------------------------------------------------------
(* Initial state: empty tables, nothing issued, nothing in flight *)

Init ==
  /\ founders = <<>>
  /\ ledger = <<>>
  /\ tokens = {}
  /\ now = 0
  /\ inflight = EmptyBag
  /\ resp = NoResponse
  /\ conns = 0

(* The clock advances to a later instant *)
Tick ==
  /\ \E t \in Instants : t > now /\ now' = t
  /\ UNCHANGED <<founders, ledger, tokens, inflight, resp, conns>>

RegisterBegin(email, password, first_name) ==
  Apply(register_founder_check(email, password, first_name))

RegisterFinish(r) ==
  /\ BagIn(r, inflight)
  /\ r.op = "register"
  /\ Apply(register_founder_insert(r))

Login(email, password) == Apply(login_founder(email, password))

GetMe(tok) == Apply(get_current_founder(tok))

Logout == Apply(logout_founder)

(* The storage's soft-deactivation: the is_active flag of a row is cleared  *)
(* by an administrator; no handler of the program writes the flag.          *)
Deactivate(i) ==
  /\ i \in FounderIds
  /\ founders[i].is_active
  /\ founders' = [founders EXCEPT ![i].is_active = FALSE]
  /\ UNCHANGED <<ledger, tokens, now, inflight, resp, conns>>

NextAuth ==
  \/ Tick
  \/ \E e \in Emails, p \in Passwords, n \in FirstNames : RegisterBegin(e, p, n)
  \/ \E r \in BagToSet(inflight) : RegisterFinish(r)
  \/ \E e \in Emails, p \in Passwords : Login(e, p)
  \/ \E tok \in PresentedTokens : GetMe(tok)
  \/ Logout
  \/ \E i \in FounderIds : Deactivate(i)

(* Accounts and sessions *)
SpecAuth == Init /\ [][NextAuth]_vars

----------------------------------------------------------------------------
(* startup_validation.py: the validation_calls table and the provider *)

(* The path parameter of get, cancel and call-status: any string; an id is  *)
(* unknown to the ledger until a call with it has been created.             *)
PathIds == {"omnidim-" \o r : r \in RequestIds}

StatusFilters == {NULL, "initiated", "completed", "cancelled"}

(* Answers of the provider to POST /calls/dispatch: the transport fails, or *)
(* an HTTP status with a JSON body whose requestId and status keys may be   *)
(* missing (ABSENT) or null (NULL).                                         *)
DispatchReplies ==
  {[reached |-> FALSE, status_code |-> 0, requestId |-> ABSENT, status |-> ABSENT],
   [reached |-> TRUE, status_code |-> 503, requestId |-> ABSENT, status |-> ABSENT],
   [reached |-> TRUE, status_code |-> HTTP_200_OK, requestId |-> ABSENT,
    status |-> "queued"],
   [reached |-> TRUE, status_code |-> HTTP_200_OK, requestId |-> "123",
    status |-> ABSENT]}
  \cup [reached : {TRUE}, status_code : {HTTP_200_OK},
        requestId : RequestIds, status : {"queued", NULL}]

(* Answers of the provider to GET and DELETE /calls/{call_id} *)
CallReplies ==
  {[reached |-> FALSE, status_code |-> 0]}
  \cup [reached : {TRUE}, status_code : {HTTP_200_OK, HTTP_404_NOT_FOUND, 503}]

(* The call_report of a webhook payload: None, or a report whose           *)
(* full_conversation may be None and whose extracted_variables is a        *)
(* mapping (a set of key-value pairs, possibly empty).                     *)
NoReport == [present |-> FALSE, full_conversation |-> NULL, extracted_variables |-> {}]

CallReports ==
  {NoReport,
   [present |-> TRUE, full_conversation |-> NULL, extracted_variables |-> {}],
   [present |-> TRUE, full_conversation |-> NULL,
    extracted_variables |-> {<<"feedback_score", "bad">>}],
   [present |-> TRUE, full_conversation |-> "Hello, this is ...",
    extracted_variables |-> {<<"feedback_score", "4.5">>}]}

(* The payloads delivered: every report with every date that can be        *)
(* stored, for the call id that rows can carry; one report is enough with  *)
(* the date the storage refuses and with the call id no row carries, since *)
(* the report is not looked at before the UPDATE matches a row.            *)
WebhookPayloads ==
  [call_id : {123}, call_date : CallDates \ {"2024-05-01T10:00:00Z"},
   call_report : CallReports]
  \cup [call_id : WebhookCallIds, call_date : CallDates, call_report : {NoReport}]

(* json.dumps of a mapping with at most one string entry *)
json_dumps(d) ==
  IF d = {} THEN "{}"
  ELSE LET kv == CHOOSE x \in d : TRUE
       IN "{\"" \o kv[1] \o "\": \"" \o kv[2] \o "\"}"

(* dateutil's parser.parse: the timestamp in minutes, or failure (NULL_TS) *)
date_parser_parse(call_date) ==
  IF call_date \in {"2024-05-01 10:00", "2024-05-01T10:00:00Z"} THEN 7 ELSE NULL_TS

(* The tzinfo of the datetime parser.parse returns: a date with a zone      *)
(* designator parses to a timezone-aware datetime.                          *)
tzinfo(call_date) == IF call_date = "2024-05-01T10:00:00Z" THEN "tzutc" ELSE NULL

(* completed_at is a TIMESTAMP (without time zone) column: the driver       *)
(* refuses a timezone-aware datetime as its argument, before the UPDATE     *)
(* runs; datetime.utcnow() is naive.                                        *)
TimestampRefused(call_date) ==
  date_parser_parse(call_date) # NULL_TS /\ tzinfo(call_date) # NULL

(* f"omnidim-{...}" *)
omnidim_call_id(id) == "omnidim-" \o id

(* INSERT INTO validation_calls: the defaults of the schema fill the rest *)
NewCall(founder_id, call_id, phone_number) ==
  [founder_id |-> founder_id, call_id |-> call_id, phone_number |-> phone_number,
   startup_name |-> "", industry |-> "", business_model |-> "",
   target_market |-> "", additional_context |-> "",
   status |-> "initiated", duration |-> NULL_TS, transcript |-> NULL,
   extracted_variables |-> NULL, created_at |-> now, completed_at |-> NULL_TS,
   updated_at |-> now]

Rows == DOMAIN ledger

(* call_id VARCHAR(255) UNIQUE NOT NULL *)
UniqueCallIdViolation(call_id) == \E k \in Rows : ledger[k].call_id = call_id

(* SELECT * FROM validation_calls WHERE call_id = $1 AND founder_id = $2:  *)
(* the position of the row, or 0 for None                                  *)
FetchCallAnyOwner(call_id, founder_id) ==
  IF \E k \in Rows : ledger[k].call_id = call_id
  THEN CHOOSE k \in Rows : ledger[k].call_id = call_id
  ELSE 0

FetchCall(call_id, founder_id) ==
  IF \E k \in Rows : ledger[k].call_id = call_id /\ ledger[k].founder_id = founder_id
  THEN CHOOSE k \in Rows :
         ledger[k].call_id = call_id /\ ledger[k].founder_id = founder_id
  ELSE 0

(* SELECT ... WHERE founder_id = $1 [AND status = $2] ORDER BY created_at  *)
(* DESC: rows are inserted in created_at order, so the result is the       *)
(* positions of the matching rows in reverse insertion order.              *)
RECURSIVE SelectDesc(_, _, _)
SelectDesc(k, founder_id, status) ==
  IF k = 0 THEN <<>>
  ELSE IF /\ ledger[k].founder_id = founder_id
          /\ (status = NULL \/ ledger[k].status = status)
       THEN <<k>> \o SelectDesc(k - 1, founder_id, status)
       ELSE SelectDesc(k - 1, founder_id, status)

CallIds(selected) == [i \in DOMAIN selected |-> ledger[selected[i]].call_id]

(* The driver hands a JSONB value to the handler as the text that was      *)
(* stored, not as a mapping: a handler that builds analysis: Dict from it, *)
(* or calls .get on it, raises, and nothing in the handler catches that.   *)
HoldsJsonText(selected) ==
  \E i \in DOMAIN selected : ledger[selected[i]].extracted_variables # NULL

InternalServerError(op, by) ==
  Response(op, by, HTTP_500_INTERNAL_SERVER_ERROR, "Internal Server Error")

Limit(seq, n) == IF Len(seq) <= n THEN seq ELSE SubSeq(seq, 1, n)

(* call['status'] in ['completed', 'failed'] *)
IsTerminalNever(status) == FALSE

IsTerminal(status) == status \in {"completed", "failed"}

(* UPDATE validation_calls SET status = 'cancelled', updated_at =          *)
(* CURRENT_TIMESTAMP WHERE call_id = $1                                    *)
MarkCancelledIfInitiated(call_id) ==
  [k \in Rows |->
     IF ledger[k].call_id = call_id /\ ledger[k].status = "initiated"
     THEN [ledger[k] EXCEPT !.status = "cancelled", !.updated_at = now]
     ELSE ledger[k]]

(* SET status = 'cancelled', updated_at = CURRENT_TIMESTAMP, written at t *)
cancel_set(row, t) == [row EXCEPT !.status = "cancelled", !.updated_at = t]

MarkCancelled(call_id) ==
  [k \in Rows |->
     IF ledger[k].call_id = call_id THEN cancel_set(ledger[k], now) ELSE ledger[k]]

(* The WHERE clause of the webhook's UPDATE *)
WebhookMatches(row, payload) ==
  row.call_id = omnidim_call_id(ToString(payload.call_id))

----------------------------------------------------------------------------
(* startup_validation.py: the handlers *)

InitiateFailed(by) ==
  Response("create", by, HTTP_500_INTERNAL_SERVER_ERROR,
           "Failed to initiate validation call")

(* initiate_validation_call and create_omnidim_call.  Every exception in   *)
(* the handler, the HTTPExceptions it raises itself included, is turned    *)
(* into a 500 by the outer except; the response model is built after the   *)
(* INSERT, and ValidationCallResponse(status: str) refuses None.           *)
initiate_validation_call(tok, phone_number, reply) ==
  LET current_founder == get_current_user(tok)
      call_id == omnidim_call_id(reply.requestId)
  IN IF current_founder = NoFounder
     THEN Responds(CredentialsException("create"))
     ELSE IF \/ ~reply.reached
             \/ reply.status_code # HTTP_200_OK
             \/ reply.requestId \in {ABSENT, NULL}
             \/ UniqueCallIdViolation(call_id)
     THEN Responds(Sent(InitiateFailed(current_founder), "POST", phone_number))
     ELSE [Unchanged EXCEPT
             !.ledger = Append(ledger,
                               NewCall(current_founder, call_id, phone_number)),
             !.resp = Sent(IF reply.status = NULL
                           THEN InitiateFailed(current_founder)
                           ELSE [Response("create", current_founder, HTTP_200_OK,
                                          "Validation call initiated successfully")
                                 EXCEPT !.calls = <<call_id>>],
                           "POST", phone_number)]

get_validation_calls(tok, status) ==
  LET current_founder == get_current_user(tok)
      calls == SelectDesc(Len(ledger), current_founder, status)
  IN Responds(IF current_founder = NoFounder
              THEN CredentialsException("list")
              ELSE IF HoldsJsonText(calls)
              THEN InternalServerError("list", current_founder)
              ELSE [Response("list", current_founder, HTTP_200_OK, "")
                    EXCEPT !.calls = CallIds(calls)])

CallNotFound(op, by) ==
  Response(op, by, HTTP_404_NOT_FOUND, "Validation call not found")

get_validation_call(tok, call_id) ==
  LET current_founder == get_current_user(tok)
      call == FetchCall(call_id, current_founder)
  IN Responds(IF current_founder = NoFounder THEN CredentialsException("get")
              ELSE IF call = 0 THEN CallNotFound("get", current_founder)
              ELSE IF HoldsJsonText(<<call>>)
              THEN InternalServerError("get", current_founder)
              ELSE [Response("get", current_founder, HTTP_200_OK, "")
                    EXCEPT !.calls = <<ledger[call].call_id>>])

(* The SET clause of the webhook's UPDATE for a delivery received at t *)
webhook_set_coalesce(row, payload, t) ==
  LET parsed == date_parser_parse(payload.call_date)
      report == payload.call_report
  IN [row EXCEPT
        !.status = "completed",
        !.transcript = IF report.present /\ report.full_conversation # NULL
                       THEN report.full_conversation ELSE row.transcript,
        !.extracted_variables =
           IF report.present /\ report.extracted_variables # {}
           THEN json_dumps(report.extracted_variables)
           ELSE row.extracted_variables,
        !.completed_at = IF parsed = NULL_TS THEN t ELSE parsed,
        !.updated_at = t]

webhook_set(row, payload, t) ==
  LET parsed == date_parser_parse(payload.call_date)
      report == payload.call_report
  IN [row EXCEPT
        !.status = "completed",
        !.transcript = IF report.present THEN report.full_conversation ELSE NULL,
        !.extracted_variables =
           IF report.present /\ report.extracted_variables # {}
           THEN json_dumps(report.extracted_variables) ELSE NULL,
        !.completed_at = IF parsed = NULL_TS THEN t ELSE parsed,
        !.updated_at = t]

(* omnidim_webhook: no authentication; one UPDATE.  An exception of the    *)
(* UPDATE is turned into a 500 by the except.                              *)
omnidim_webhook(payload) ==
  IF TimestampRefused(payload.call_date)
  THEN Responds(Response("webhook", NoFounder, HTTP_500_INTERNAL_SERVER_ERROR,
                         "Failed to process webhook"))
  ELSE [Unchanged EXCEPT
          !.ledger = [k \in Rows |->
                        IF WebhookMatches(ledger[k], payload)
                        THEN webhook_set(ledger[k], payload, now)
                        ELSE ledger[k]],
          !.resp = Response("webhook", NoFounder, HTTP_200_OK,
                            "Webhook processed successfully")]

(* get_call_status_from_omnidim: the path parameter goes to the provider   *)
(* as it is; the ledger is not read.                                       *)
get_call_status_from_omnidim(tok, call_id, reply) ==
  LET current_founder == get_current_user(tok)
      answer ==
        IF ~reply.reached
        THEN Response("call-status", current_founder,
                      HTTP_500_INTERNAL_SERVER_ERROR,
                      "Failed to connect to Omnidim API")
        ELSE IF reply.status_code = HTTP_404_NOT_FOUND
        THEN Response("call-status", current_founder,
                      HTTP_404_NOT_FOUND, "Call not found")
        ELSE IF reply.status_code # HTTP_200_OK
        THEN Response("call-status", current_founder,
                      reply.status_code, "Failed to get call status")
        ELSE [Response("call-status", current_founder, HTTP_200_OK, "")
              EXCEPT !.calls = <<call_id>>]
  IN Responds(IF current_founder = NoFounder
              THEN CredentialsException("call-status")
              ELSE Sent(answer, "GET", call_id))

(* cancel_validation_call up to the await of the provider's DELETE; when   *)
(* the call may be cancelled the DELETE is sent and the request waits.     *)
cancel_validation_call_check(tok, call_id) ==
  LET current_founder == get_current_user(tok)
      call == FetchCall(call_id, current_founder)
  IN IF current_founder = NoFounder
     THEN Responds(CredentialsException("cancel"))
     ELSE IF call = 0
     THEN Responds(CallNotFound("cancel", current_founder))
     ELSE IF IsTerminal(ledger[call].status)
     THEN Responds(Response("cancel", current_founder, HTTP_400_BAD_REQUEST,
                            "Cannot cancel a completed or failed call"))
     ELSE [Unchanged EXCEPT
             !.conns = conns + 1,
             !.inflight = inflight (+) SetToBag({
               [op |-> "cancel", call_id |-> call_id, by |-> current_founder]})]

(* cancel_validation_call from the provider's answer on: the answer's       *)
(* status is not looked at; a transport failure takes the except branch.    *)
cancel_validation_call_update(r, reply) ==
  [Unchanged EXCEPT
     !.conns = conns - 1,
     !.inflight = inflight (-) SetToBag({r}),
     !.ledger = MarkCancelled(r.call_id),
     !.resp = Sent(Response("cancel", r.by, HTTP_200_OK,
                IF reply.reached
                THEN "Validation call cancelled successfully"
                ELSE "Call cancelled locally, but API cancellation may have failed"),
                "DELETE", r.call_id)]

(* float(call['extracted_variables']['feedback_score']) for one of the     *)
(* recent calls: a NULL column is skipped by the if; otherwise the value   *)
(* is the stored text, the text contains 'feedback_score', and indexing    *)
(* text with a string raises TypeError, which the handler catches.  The    *)
(* result is the score in hundredths, or NULL_TS when there is none.       *)
feedback_score(extracted_variables) ==
  IF extracted_variables = NULL THEN NULL_TS
  ELSE NULL_TS

RECURSIVE feedback_scores(_)
feedback_scores(recent_calls) ==
  IF recent_calls = <<>> THEN <<>>
  ELSE LET score == feedback_score(ledger[Head(recent_calls)].extracted_variables)
       IN (IF score = NULL_TS THEN <<>> ELSE <<score>>)
            \o feedback_scores(Tail(recent_calls))

RECURSIVE Sum(_)
Sum(scores) == IF scores = <<>> THEN 0 ELSE Head(scores) + Sum(Tail(scores))

(* sum(feedback_scores) / len(feedback_scores) if feedback_scores else     *)
(* None, then round(..., 2) if avg_feedback_score else None: an average of *)
(* zero is falsy and is returned as None too.                              *)
average_feedback_score(scores) ==
  LET avg == IF scores = <<>> THEN NULL_TS ELSE Sum(scores) \div Len(scores)
  IN IF avg = NULL_TS \/ avg = 0 THEN "null" ELSE ToString(avg)

(* get_validation_analytics: the average it returns, in hundredths, and    *)
(* the rows its recent_validations are built from                          *)
get_validation_analytics(tok) ==
  LET current_founder == get_current_user(tok)
      recent_calls ==
        Limit(SelectDesc(Len(ledger), current_founder, NULL), RECENT_LIMIT)
  IN Responds(IF current_founder = NoFounder
              THEN CredentialsException("analytics")
              ELSE IF HoldsJsonText(recent_calls)
              THEN InternalServerError("analytics", current_founder)
              ELSE [Response("analytics", current_founder, HTTP_200_OK,
                             average_feedback_score(feedback_scores(recent_calls)))
                    EXCEPT !.calls = CallIds(recent_calls)])

----------------------------------------------------------------------------
Create(tok, phone_number, reply) ==
  Apply(initiate_validation_call(tok, phone_number, reply))

List(tok, status) == Apply(get_validation_calls(tok, status))

Get(tok, call_id) == Apply(get_validation_call(tok, call_id))

Webhook(payload) == Apply(omnidim_webhook(payload))

CallStatus(tok, call_id, reply) ==
  Apply(get_call_status_from_omnidim(tok, call_id, reply))

CancelBegin(tok, call_id) == Apply(cancel_validation_call_check(tok, call_id))

CancelFinish(r, reply) ==
  /\ BagIn(r, inflight)
  /\ r.op = "cancel"
  /\ Apply(cancel_validation_call_update(r, reply))

Analytics(tok) == Apply(get_validation_analytics(tok))

(* Both founders have registered at the same minute and hold the tokens    *)
(* issued to them; the ledger is still empty.                              *)
InitCalls ==
  /\ founders =
       <<[email |-> "a@x.io", password_hash |-> hash_password("pw1"),
          first_name |-> "Ann", is_active |-> TRUE],
         [email |-> "b@x.io", password_hash |-> hash_password("pw1"),
          first_name |-> "Ann", is_active |-> TRUE]>>
  /\ ledger = <<>>
  /\ now = JWT_ACCESS_TOKEN_EXPIRE_MINUTES
  /\ tokens = {create_access_token("a@x.io", now), create_access_token("b@x.io", now)}
  /\ inflight = EmptyBag
  /\ resp = NoResponse
  /\ conns = 0

(* The payloads whose feedback score is a number or missing *)
ScoredPayloads ==
  {payload \in WebhookPayloads :
     <<"feedback_score", "bad">> \notin payload.call_report.extracted_variables}

NextCalls ==
  \/ Tick
  \/ \E tok \in PresentedTokens, ph \in PhoneNumbers, reply \in DispatchReplies :
       Create(tok, ph, reply)
  \/ \E payload \in ScoredPayloads : Webhook(payload)
  \/ \E tok \in PresentedTokens, c \in PathIds : CancelBegin(tok, c)
  \/ \E r \in BagToSet(inflight), reply \in CallReplies : CancelFinish(r, reply)

(* The writes of the ledger as the clock advances; what the score of a     *)
(* delivery is matters to the analytics alone, which SpecReads runs.       *)
SpecCalls == InitCalls /\ [][NextCalls]_vars

NextReads ==
  \/ \E tok \in PresentedTokens, ph \in PhoneNumbers, reply \in DispatchReplies :
       Create(tok, ph, reply)
  \/ \E tok \in PresentedTokens, st \in StatusFilters : List(tok, st)
  \/ \E tok \in PresentedTokens, c \in PathIds : Get(tok, c)
  \/ \E payload \in WebhookPayloads : Webhook(payload)
  \/ \E tok \in PresentedTokens, c \in PathIds, reply \in CallReplies :
       CallStatus(tok, c, reply)
  \/ \E tok \in PresentedTokens, c \in PathIds : CancelBegin(tok, c)
  \/ \E r \in BagToSet(inflight), reply \in CallReplies : CancelFinish(r, reply)
  \/ \E tok \in PresentedTokens : Analytics(tok)

(* Every handler of the ledger at one instant of the clock *)
SpecReads == InitCalls /\ [][NextReads]_vars

Next == NextAuth \/ NextCalls \/ NextReads

Spec == Init /\ [][Next]_vars

----------------------------------------------------------------------------
(* Properties of registration, login and session tokens (SpecAuth) *)

Registered(email) == \E i \in FounderIds : founders[i].email = email

RegisterConflict(n) ==
  /\ n.resp.op = "register"
  /\ n.resp.code = HTTP_400_BAD_REQUEST
  /\ n.resp.detail = "Email already registered"
  /\ n.resp.tokens = {}
  /\ n.founders = founders
  /\ n.tokens = tokens

(* C6: a registration for an email that already has an account, whether    *)
(* the account existed when the request started or was created while the   *)
(* request was waiting for the storage, is answered with the Conflict      *)
(* error 'Email already registered', issues no token and leaves the        *)
(* founders table unchanged.                                               *)
C6_DuplicateRegisterIsConflict ==
  /\ \A r \in BagToSet(inflight) :
       (r.op = "register" /\ Registered(r.email))
         => RegisterConflict(register_founder_insert(r))
  /\ \A e \in Emails, p \in Passwords, n \in FirstNames :
       Registered(e) => RegisterConflict(register_founder_check(e, p, n))

(* C7: the founders table never holds two rows with the same email.        *)
C7_EmailUnique ==
  \A i \in FounderIds, j \in FounderIds :
    founders[i].email = founders[j].email => i = j

(* Two registrations of one email raced and the storage refused the second *)
C7_Witness ==
  /\ resp.op = "register"
  /\ resp.code = HTTP_500_INTERNAL_SERVER_ERROR
  /\ Registered("a@x.io")

LoginFailure ==
  [op |-> "login", by |-> NoFounder, code |-> HTTP_401_UNAUTHORIZED,
   detail |-> "Incorrect email or password", at |-> now,
   tokens |-> {}, calls |-> <<>>, sent |-> NoRequest]

UnknownEmail(email) == ~Registered(email)

InactiveAccount(email) ==
  \E i \in FounderIds : founders[i].email = email /\ ~founders[i].is_active

WrongPassword(email, password) ==
  \E i \in FounderIds :
    /\ founders[i].email = email
    /\ founders[i].password_hash # hash_password(password)

(* C8: a login with an unknown email, with the email of an inactive        *)
(* account or with a password that does not match is answered by one and   *)
(* the same response (401, 'Incorrect email or password', no token), and   *)
(* issues no token.                                                        *)
C8_LoginFailureUniform ==
  \A e \in Emails, p \in Passwords :
    (UnknownEmail(e) \/ InactiveAccount(e) \/ WrongPassword(e, p))
      => /\ login_founder(e, p).resp = LoginFailure
         /\ login_founder(e, p).tokens = tokens

(* A login was refused while one account is inactive, the other is active  *)
(* and has another password than some login could try                      *)
C8_Witness ==
  /\ resp = LoginFailure
  /\ \E e \in Emails : InactiveAccount(e)
  /\ \E e \in Emails, p \in Passwords : ~InactiveAccount(e) /\ WrongPassword(e, p)

TokenAccountActive(tok) ==
  /\ tok.sub # NULL
  /\ \E i \in FounderIds : founders[i].email = tok.sub /\ founders[i].is_active

Authenticated(response, tok) ==
  /\ response.op = "me"
  /\ response.code = HTTP_200_OK
  /\ response.by \in FounderIds
  /\ founders[response.by].email = tok.sub

Unauthenticated(response) ==
  /\ response.op = "me"
  /\ response.code = HTTP_401_UNAUTHORIZED
  /\ response.detail = "Could not validate credentials"
  /\ response.by = NoFounder

(* C9 as stated: authenticate(token) returns the account if and only if    *)
(* the token is validly signed, the current time is before its expiry, it  *)
(* embeds an email and an active account has that email; otherwise it      *)
(* fails with Unauthenticated.                                             *)
C9_AcceptedIffBeforeExpiry ==
  \A tok \in PresentedTokens :
    IF tok.signed /\ now < tok.exp /\ TokenAccountActive(tok)
    THEN Authenticated(get_current_founder(tok).resp, tok)
    ELSE Unauthenticated(get_current_founder(tok).resp)

(* C9 amended: the same, with the token accepted up to and including the   *)
(* instant of its expiry, and rejected once the current time is after it.  *)
C9_AcceptedIffNotAfterExpiry ==
  \A tok \in PresentedTokens :
    IF tok.signed /\ now <= tok.exp /\ TokenAccountActive(tok)
    THEN Authenticated(get_current_founder(tok).resp, tok)
    ELSE Unauthenticated(get_current_founder(tok).resp)

(* The only token issued expires at this very instant and was accepted     *)
C9_Witness ==
  /\ resp.op = "me"
  /\ resp.code = HTTP_200_OK
  /\ resp.at = now
  /\ tokens # {}
  /\ \A tok \in tokens : tok.exp = now

----------------------------------------------------------------------------
(* Properties of the validation-call ledger (SpecCalls, SpecReads) *)

Owns(founder_id, call_id) ==
  \E k \in Rows : ledger[k].call_id = call_id /\ ledger[k].founder_id = founder_id

RowOf(call_id) == CHOOSE k \in Rows : ledger[k].call_id = call_id

Range(seq) == {seq[i] : i \in DOMAIN seq}

(* C1: cancel by the owner of a row whose status is completed or failed is *)
(* answered with the Conflict error, changes no field of any row, and      *)
(* sends nothing to the provider.                                          *)
C1_TerminalCancelIsConflict ==
  \A tok \in PresentedTokens, c \in PathIds :
    LET n == cancel_validation_call_check(tok, c)
    IN ( /\ Owns(get_current_user(tok), c)
         /\ ledger[RowOf(c)].status \in {"completed", "failed"} )
         => /\ n.resp.op = "cancel"
            /\ n.resp.code = HTTP_400_BAD_REQUEST
            /\ n.resp.detail = "Cannot cancel a completed or failed call"
            /\ n.resp.sent = NoRequest
            /\ n.ledger = ledger
            /\ n.inflight = inflight

(* The owner's cancel of a call completed earlier was just refused *)
C1_Witness ==
  /\ resp.op = "cancel"
  /\ resp.code = HTTP_400_BAD_REQUEST
  /\ resp.at = now
  /\ \E k \in Rows :
       /\ ledger[k].founder_id = resp.by
       /\ ledger[k].status = "completed"
       /\ ledger[k].updated_at < now

(* C2: get and cancel by an authenticated founder on a call id that is not *)
(* a row of that founder's are answered with the one NotFound response,    *)
(* whether the id belongs to another founder or to no row at all, and      *)
(* change no row and send nothing to the provider.                         *)
C2_ForeignCallIsNotFound ==
  \A tok \in PresentedTokens, c \in PathIds :
    LET A == get_current_user(tok)
        g == get_validation_call(tok, c)
        d == cancel_validation_call_check(tok, c)
    IN (A # NoFounder /\ ~Owns(A, c)) =>
         /\ g.resp = CallNotFound("get", A)
         /\ g.ledger = ledger
         /\ d.resp = CallNotFound("cancel", A)
         /\ d.ledger = ledger
         /\ d.inflight = inflight

(* A founder's cancel was answered NotFound when every call id was a row   *)
(* of the other founder                                                    *)
C2_Witness ==
  /\ resp.op = "cancel"
  /\ resp.code = HTTP_404_NOT_FOUND
  /\ resp.by # NoFounder
  /\ resp.at = now
  /\ \A c \in PathIds : \E k \in Rows : ledger[k].call_id = c
  /\ \A k \in Rows : ledger[k].founder_id # resp.by

(* The result n of a handler run for founder A touches no row of another   *)
(* founder: it does not modify it, return it, or ask the provider about it *)
ScopedTo(A, n) ==
  \A k \in Rows :
    ledger[k].founder_id # A =>
      /\ n.ledger[k] = ledger[k]
      /\ ledger[k].call_id \notin Range(n.resp.calls)
      /\ ~( /\ n.resp.sent.method \in {"GET", "DELETE"}
            /\ n.resp.sent.id = ledger[k].call_id )
      /\ \A r \in BagToSet(n.inflight) :
           (r.op = "cancel" /\ r.call_id = ledger[k].call_id) => BagIn(r, inflight)

(* C3: list, get, cancel, call-status and analytics, run for an            *)
(* authenticated founder, return no data about a row of another founder,   *)
(* forward no provider request for such a row and modify no such row.      *)
C3_ScopedToCaller ==
  /\ \A tok \in PresentedTokens :
       LET A == get_current_user(tok)
       IN A # NoFounder =>
            /\ \A st \in StatusFilters : ScopedTo(A, get_validation_calls(tok, st))
            /\ ScopedTo(A, get_validation_analytics(tok))
            /\ \A c \in PathIds :
                 /\ ScopedTo(A, get_validation_call(tok, c))
                 /\ ScopedTo(A, cancel_validation_call_check(tok, c))
                 /\ \A reply \in CallReplies :
                      ScopedTo(A, get_call_status_from_omnidim(tok, c, reply))
  /\ \A r \in BagToSet(inflight), reply \in CallReplies :
       r.op = "cancel" => ScopedTo(r.by, cancel_validation_call_update(r, reply))

(* C4: the owner's cancel of a row that is neither completed nor failed is *)
(* not refused (the DELETE is sent and awaited), and whatever the provider *)
(* answers (acknowledgement, non-success status, transport failure) the    *)
(* request returns success and the row's status is cancelled when it       *)
(* returns; on a transport failure the message is the 'cancelled locally'  *)
(* warning.                                                                *)
C4_CancelConverges ==
  /\ \A tok \in PresentedTokens, c \in PathIds :
       LET A == get_current_user(tok)
           n == cancel_validation_call_check(tok, c)
           r == [op |-> "cancel", call_id |-> c, by |-> A]
       IN (Owns(A, c) /\ ledger[RowOf(c)].status \notin {"completed", "failed"})
            => /\ n.resp = resp
               /\ n.ledger = ledger
               /\ CopiesIn(r, n.inflight) = CopiesIn(r, inflight) + 1
  /\ \A r \in BagToSet(inflight), reply \in CallReplies :
       LET n == cancel_validation_call_update(r, reply)
       IN r.op = "cancel" =>
            /\ n.resp.op = "cancel"
            /\ n.resp.code = HTTP_200_OK
            /\ n.resp.by = r.by
            /\ n.ledger[RowOf(r.call_id)].status = "cancelled"
            /\ ~reply.reached =>
                 n.resp.detail =
                   "Call cancelled locally, but API cancellation may have failed"

(* A cancel ended with the warning, on a call the webhook had completed    *)
(* while the provider's DELETE was awaited                                 *)
C4_Witness ==
  /\ resp.op = "cancel"
  /\ resp.code = HTTP_200_OK
  /\ resp.detail = "Call cancelled locally, but API cancellation may have failed"
  /\ \E k \in Rows :
       /\ ledger[k].call_id = resp.sent.id
       /\ ledger[k].founder_id = resp.by
       /\ ledger[k].status = "cancelled"
       /\ ledger[k].updated_at = resp.at

ProviderFailed(reply) ==
  \/ ~reply.reached
  \/ reply.status_code # HTTP_200_OK
  \/ reply.requestId \in {ABSENT, NULL}

(* C5: create writes a row if and only if it returns success; on success   *)
(* the one new row has the caller as founder_id, call_id 'omnidim-' + the  *)
(* provider's requestId, status initiated and empty metadata; if the       *)
(* provider fails or returns no requestId, create fails and the ledger is  *)
(* unchanged.                                                              *)
C5_RowIffSuccess ==
  \A tok \in PresentedTokens, ph \in PhoneNumbers, reply \in DispatchReplies :
    LET n == initiate_validation_call(tok, ph, reply)
        row == n.ledger[Len(n.ledger)]
    IN /\ (n.resp.code = HTTP_200_OK) <=> (n.ledger # ledger)
       /\ n.resp.code = HTTP_200_OK =>
            /\ Len(n.ledger) = Len(ledger) + 1
            /\ SubSeq(n.ledger, 1, Len(ledger)) = ledger
            /\ row.founder_id = get_current_user(tok)
            /\ row.call_id = "omnidim-" \o reply.requestId
            /\ row.status = "initiated"
            /\ row.startup_name = "" /\ row.industry = ""
            /\ row.business_model = "" /\ row.target_market = ""
            /\ row.additional_context = ""
       /\ ProviderFailed(reply) => (n.resp.code # HTTP_200_OK /\ n.ledger = ledger)

(* C10: a webhook delivery changes no row other than the one whose call_id *)
(* is exactly 'omnidim-' followed by the payload's call id, adds and       *)
(* removes no row, and returns success when no row matched.                *)
C10_WebhookFrame ==
  \A payload \in WebhookPayloads :
    LET n == omnidim_webhook(payload)
    IN /\ DOMAIN n.ledger = DOMAIN ledger
       /\ \A k \in Rows :
            ledger[k].call_id # "omnidim-" \o ToString(payload.call_id)
              => n.ledger[k] = ledger[k]
       /\ n.resp.op = "webhook"
       /\ (\A k \in Rows : ~WebhookMatches(ledger[k], payload))
            => n.resp.code = HTTP_200_OK

----------------------------------------------------------------------------
(* The storage connection of a request (main.py, auth.py,                  *)
(* startup_validation.py).                                                 *)
(*                                                                         *)
(* A request opens one connection per scope: the authentication lookup of  *)
(* a protected route is a scope of its own, then the handler's.  A scope   *)
(* is the number of storage or provider calls awaited while its connection *)
(* is open, the calls whose failure the handler catches and goes on after, *)
(* and whether conn.close() is in a finally.                               *)

(* get_current_user and health_check: close() follows the query in line    *)
AuthLookup == [steps |-> 1, caught |-> {}, cleanup |-> FALSE]

HealthProbe == [steps |-> 1, caught |-> {}, cleanup |-> FALSE]

(* try: ... finally: await conn.close() *)
Guarded(steps, caught) == [steps |-> steps, caught |-> caught, cleanup |-> TRUE]

Routes ==
  {"health", "register", "login", "me", "create", "list", "get", "cancel",
   "webhook", "analytics"}

Scopes(route) ==
  CASE route = "health" -> <<HealthProbe>>
    [] route = "register" -> <<Guarded(2, {})>>
    [] route = "login" -> <<Guarded(1, {})>>
    [] route = "me" -> <<AuthLookup>>
    [] route = "create" -> <<AuthLookup, Guarded(1, {})>>
    [] route = "list" -> <<AuthLookup, Guarded(1, {})>>
    [] route = "get" -> <<AuthLookup, Guarded(1, {})>>
    [] route = "cancel" -> <<AuthLookup, Guarded(3, {2})>>
    [] route = "webhook" -> <<Guarded(1, {})>>
    [] route = "analytics" -> <<AuthLookup, Guarded(2, {})>>

(* get_db_connection at the start of the route's first scope *)
open_connection(route) ==
  [Unchanged EXCEPT
     !.conns = conns + 1,
     !.inflight = inflight (+) SetToBag({[op |-> route, scope |-> 1, step |-> 1]})]

(* The call the request r awaits returns (ok) or raises.  After the last   *)
(* call of a scope the connection is closed and the next scope, if any,    *)
(* opens its own; a failure that is not caught ends the request with 500,  *)
(* and the connection is closed only where a finally does it.              *)
await_returns(r, ok) ==
  LET scope == Scopes(r.op)[r.scope]
      rest == inflight (-) SetToBag({r})
      Moved(to) == rest (+) SetToBag({to})
  IN IF ok \/ r.step \in scope.caught
     THEN IF r.step < scope.steps
          THEN [Unchanged EXCEPT !.inflight = Moved([r EXCEPT !.step = r.step + 1])]
          ELSE IF r.scope < Len(Scopes(r.op))
          THEN [Unchanged EXCEPT
                  !.inflight = Moved([r EXCEPT !.scope = r.scope + 1, !.step = 1])]
          ELSE [Unchanged EXCEPT
                  !.conns = conns - 1,
                  !.inflight = rest,
                  !.resp = Response(r.op, NoFounder, HTTP_200_OK, "")]
     ELSE [Unchanged EXCEPT
             !.conns = IF scope.cleanup THEN conns - 1 ELSE conns,
             !.inflight = rest,
             !.resp = InternalServerError(r.op, NoFounder)]

RequestBegin(route) == Apply(open_connection(route))

AwaitReturns(r, ok) ==
  /\ BagIn(r, inflight)
  /\ Apply(await_returns(r, ok))

NextConn ==
  \/ \E route \in Routes : RequestBegin(route)
  \/ \E r \in BagToSet(inflight), ok \in BOOLEAN : AwaitReturns(r, ok)

(* Requests whose storage and provider calls may fail *)
SpecConn == Init /\ [][NextConn]_vars

(* C11: no request has ended with its storage connection still open: the   *)
(* connections that are open are those of the requests still in progress,  *)
(* whether the requests before them succeeded or failed at a storage or    *)
(* provider step.                                                          *)
C11_ConnectionsReleased == conns = BagCardinality(inflight)

----------------------------------------------------------------------------
(* The feedback scores of the rows as the webhook stored them *)

(* json.loads of a stored extracted_variables text *)
json_loads(text) ==
  CHOOSE d \in {report.extracted_variables : report \in CallReports} :
    d # {} /\ json_dumps(d) = text

(* float() of a score, in hundredths; NULL_TS when it is not a number *)
float_of(score) == IF score = "4.5" THEN 450 ELSE NULL_TS

(* The numeric feedback score of a row, or NULL_TS when the row has no     *)
(* extracted variables, no feedback_score among them, or one that is not   *)
(* a number                                                                *)
NumericScore(row) ==
  IF row.extracted_variables = NULL THEN NULL_TS
  ELSE LET d == json_loads(row.extracted_variables)
       IN IF \E kv \in d : kv[1] = "feedback_score"
          THEN float_of((CHOOSE kv \in d : kv[1] = "feedback_score")[2])
          ELSE NULL_TS

(* The numeric scores of all the rows 1..k of a founder *)
RECURSIVE NumericScores(_, _)
NumericScores(k, founder_id) ==
  IF k = 0 THEN <<>>
  ELSE NumericScores(k - 1, founder_id)
         \o (IF /\ ledger[k].founder_id = founder_id
                 /\ NumericScore(ledger[k]) # NULL_TS
              THEN <<NumericScore(ledger[k])>> ELSE <<>>)

(* C12: analytics returns, as average feedback score, the mean of the      *)
(* numeric feedback_score values over all the caller's calls, a call with  *)
(* a missing or non-numeric score counting neither in the sum nor in the   *)
(* count; the average is null only when no call has a numeric score.       *)
C12_AverageOfNumericScores ==
  \A tok \in PresentedTokens :
    LET A == get_current_user(tok)
        answer == get_validation_analytics(tok).resp
        scores == NumericScores(Len(ledger), A)
    IN A # NoFounder =>
         /\ answer.op = "analytics"
         /\ answer.code = HTTP_200_OK
         /\ answer.detail = IF scores = <<>> THEN "null"
                            ELSE ToString(Sum(scores) \div Len(scores))

----------------------------------------------------------------------------
(* The lifecycle of a call *)

(* A step of the state machine of a row's status, taken by operation op:   *)
(* initiated to completed by the webhook, initiated or in_progress to      *)
(* cancelled by a cancel                                                   *)
LifecycleStep(before, after, op) ==
  \/ after = before
  \/ op = "webhook" /\ before = "initiated" /\ after = "completed"
  \/ op = "cancel" /\ before \in {"initiated", "in_progress"} /\ after = "cancelled"

(* Every row's status in the result n of operation op is where it was or   *)
(* one lifecycle step further                                              *)
FollowsLifecycle(n, op) ==
  \A k \in Rows : LifecycleStep(ledger[k].status, n.ledger[k].status, op)

(* C13: whatever requests are in progress, every change a webhook delivery *)
(* or a cancel makes to a row's status is a step of the lifecycle (so a    *)
(* completed or failed row is never set to cancelled), and create, get and *)
(* the refusal of a cancel change no row's status.                         *)
C13_StatusFollowsLifecycle ==
  /\ \A payload \in WebhookPayloads :
       FollowsLifecycle(omnidim_webhook(payload), "webhook")
  /\ \A r \in BagToSet(inflight), reply \in CallReplies :
       r.op = "cancel" =>
         FollowsLifecycle(cancel_validation_call_update(r, reply), "cancel")
  /\ \A tok \in PresentedTokens, c \in PathIds :
       /\ FollowsLifecycle(cancel_validation_call_check(tok, c), "none")
       /\ FollowsLifecycle(get_validation_call(tok, c), "none")
  /\ \A tok \in PresentedTokens, ph \in PhoneNumbers, reply \in DispatchReplies :
       FollowsLifecycle(initiate_validation_call(tok, ph, reply), "none")

----------------------------------------------------------------------------
(* Repeated and competing writes of one row *)

LaterInstants == {t \in Instants : t >= now}

DateParses(payload) == date_parser_parse(payload.call_date) # NULL_TS

(* The payloads whose delivery writes the row *)
Writers(row) ==
  {p \in WebhookPayloads :
     ~TimestampRefused(p.call_date) /\ WebhookMatches(row, p)}

(* Whatever was written to the row before, after q is written at t the     *)
(* row's status, transcript, extracted variables and completed_at are      *)
(* those of q alone                                                        *)
LastWriteWins(row, q, t) ==
  LET last == webhook_set(row, q, t)
      report == q.call_report
  IN /\ last.status = "completed"
     /\ last.transcript =
          IF report.present THEN report.full_conversation ELSE NULL
     /\ last.extracted_variables =
          IF report.present /\ report.extracted_variables # {}
          THEN json_dumps(report.extracted_variables) ELSE NULL
     /\ last.completed_at =
          IF DateParses(q) THEN date_parser_parse(q.call_date) ELSE t

(* A second write of p at t leaves the row as the first write of p left it *)
(* apart from updated_at                                                   *)
SameApartFromUpdatedAt(row, p, t) ==
  LET once == webhook_set(row, p, now)
      twice == webhook_set(once, p, t)
  IN [twice EXCEPT !.updated_at = once.updated_at] = once

(* The same, with completed_at also left aside, which is t                 *)
SameApartFromTimes(row, p, t) ==
  LET once == webhook_set(row, p, now)
      twice == webhook_set(once, p, t)
  IN /\ twice.completed_at = t
     /\ [twice EXCEPT !.updated_at = once.updated_at,
                       !.completed_at = once.completed_at] = once

(* A second cancel at t leaves the row as the first left it apart from     *)
(* updated_at                                                              *)
CancelTwice(row, t) ==
  LET once == cancel_set(row, now)
      twice == cancel_set(once, t)
  IN [twice EXCEPT !.updated_at = once.updated_at] = once

----------------------------------------------------------------------------
(* What a delivery writes to the row it matches *)

(* The row holds what the payload carries: status completed, completed_at  *)
(* the payload's date when it parses and the receipt time t otherwise, the *)
(* transcript and the serialized extracted variables when the payload has  *)
(* them                                                                    *)
HoldsDelivery(row, payload, t) ==
  LET report == payload.call_report
  IN /\ row.status = "completed"
     /\ row.completed_at =
          IF DateParses(payload) THEN date_parser_parse(payload.call_date) ELSE t
     /\ report.present => row.transcript = report.full_conversation
     /\ (report.present /\ report.extracted_variables # {})
          => row.extracted_variables = json_dumps(report.extracted_variables)

(* C15: a delivery to a matching row is answered with success, whatever    *)
(* its date, and leaves the row completed, with completed_at the payload's *)
(* date when it parses and the receipt time otherwise, and with the        *)
(* transcript and the extracted variables of the payload when present.     *)
C15_DeliveryCompletesRow ==
  \A payload \in WebhookPayloads :
    LET n == omnidim_webhook(payload)
    IN \A k \in Rows :
         WebhookMatches(ledger[k], payload) =>
           /\ n.resp.code = HTTP_200_OK
           /\ HoldsDelivery(n.ledger[k], payload, now)

====
